---- MODULE Spec2Model ----
(***************************************************************************)
(* The three priority queues of src/main.rs: BinaryHeap (array heap with   *)
(* decrease_key), BinomialHeap (rank-indexed forest merged by carry        *)
(* propagation) and RandomizedMeldableHeap (binary tree melded along a     *)
(* random path).                                                           *)
(*                                                                         *)
(* Representation.  An Option<T> is a sequence of length 0 (None) or 1     *)
(* (Some(x) = <<x>>); chaining option iterators is then concatenation.     *)
(* Vec indices are 0-based as in the source; At/Swap translate them to     *)
(* TLA+'s 1-based sequences.                                               *)
(***************************************************************************)
EXTENDS Integers, Sequences, FiniteSets, Bags, TLC

\* ---- bounds of the model ----
MaxKey == 1
MaxBinary == 5
MaxBinomial == 7
MaxRandomized == 4
MaxLockstep == 5
MaxOperand == 4
MaxTwin == 4
MaxUnchecked == 3
MaxLoop == 4

Max(S) == CHOOSE x \in S : \A y \in S : y <= x

Keys == 0..MaxKey
\* the payload type D, never compared by the code
Data == BOOLEAN
Variants == {"binary", "binomial", "randomized"}

VARIABLES
    heaps,     \* the variants that were constructed
    storage,   \* BinaryHeap.storage: Vec<HeapEntry>
    ranks,     \* BinomialHeap.ranks: Vec<Option<BinomialTree>>
    root,      \* RandomizedMeldableHeap.root: Option<Box<Node>>
    other,     \* a second BinomialHeap, the argument of BinomialHeap::merge
    call,      \* the last operation called and its arguments
    ref,       \* the EntryRef returned by the last BinaryHeap::insert
    val1,      \* what the last delete_min returned: BinaryHeap
    val2,      \*                                    BinomialHeap
    val3,      \*                                    RandomizedMeldableHeap
    live,      \* per heap: inserts so far minus delete_min calls that returned Some
    fresh,     \* TRUE while no entry has been inserted since construction
    fault,     \* TRUE when the last call panicked
    pc,        \* test(): "insert" in the first loop, "delete" in the second
    inserted,  \* test(): the multiset of keys inserted so far
    out1,      \* test(): the keys delete_min returned so far: BinaryHeap
    out2,      \*                                              BinomialHeap
    out3,      \*                                              RandomizedMeldableHeap
    twin,      \* a second RandomizedMeldableHeap given the same calls, other coin flips
    val4,      \* what the last delete_min of twin returned
    held,      \* an EntryRef the caller keeps, with the entry whose insert returned it
    peak,      \* the largest number of entries the BinomialHeap has held at once
    loop       \* the loop or recursion in progress, one iteration per step

history == <<pc, inserted, out1, out2, out3>>
aside == <<twin, val4, held, peak, loop>>
vars == <<heaps, storage, ranks, root, other, call, ref, val1, val2, val3, live, fresh, fault,
          pc, inserted, out1, out2, out3, twin, val4, held, peak, loop>>

None == << >>
Some(x) == <<x>>

HeapEntry(k, d) == [key |-> k, data |-> d]

\* ------------------------------------------------------------------------
\* BinaryHeap
\* ------------------------------------------------------------------------
At(s, i) == s[i + 1]
\* faulty variant: the second of the two writes is missing
SwapOverwrite(s, i, j) == [s EXCEPT ![i + 1] = s[j + 1]]

Swap(s, i, j) == [s EXCEPT ![i + 1] = s[j + 1], ![j + 1] = s[i + 1]]
Pop(s) == SubSeq(s, 1, Len(s) - 1)

\* the sift-up loop shared by insert and decrease_key
RECURSIVE SiftUp(_, _)
SiftUp(s, current_index) ==
    IF current_index = 0
    THEN [storage |-> s, index |-> current_index]
    ELSE LET parent_index == (current_index - 1) \div 2
         IN  IF At(s, current_index).key < At(s, parent_index).key
             THEN SiftUp(Swap(s, current_index, parent_index), parent_index)
             ELSE [storage |-> s, index |-> current_index]

\* faulty variant: the index returned is where the entry was pushed
BinaryInsertStaleIndex(s, entry) ==
    [storage |-> SiftUp(Append(s, entry), Len(s)).storage, index |-> Len(s)]

\* faulty variant: the pushed entry is left at the end of the array
BinaryInsertNoSift(s, entry) == [storage |-> Append(s, entry), index |-> Len(s)]

BinaryInsert(s, entry) == SiftUp(Append(s, entry), Len(s))

\* index of the child the sift-down compares with: the first minimum of the
\* slice storage[child_index ..= max_child_index]
\* faulty variant: the right child is never looked at
MinChildIndexFirst(s, child_index) == child_index

MinChildIndex(s, child_index) ==
    LET max_child_index == IF child_index + 1 < Len(s) THEN child_index + 1
                           ELSE child_index
    IN  IF max_child_index > child_index
           /\ At(s, max_child_index).key < At(s, child_index).key
        THEN max_child_index
        ELSE child_index

RECURSIVE SiftDown(_, _)
SiftDown(s, current_index) ==
    LET child_index == 2 * current_index + 1
    IN  IF child_index < Len(s)
        THEN LET max_index == MinChildIndex(s, child_index)
             IN  IF At(s, current_index).key > At(s, max_index).key
                 THEN SiftDown(Swap(s, current_index, max_index), max_index)
                 ELSE s
        ELSE s

\* faulty variant: a heap of one entry is taken for an empty one
BinaryDeleteMinEmptyAtOne(s) ==
    IF Len(s) <= 1
    THEN [storage |-> s, val |-> None, fault |-> FALSE]
    ELSE LET swapped == Swap(s, 0, Len(s) - 1)
         IN  [storage |-> SiftDown(Pop(swapped), 0),
              val |-> Some(swapped[Len(s)]), fault |-> FALSE]

\* faulty variant: no early return, so that len - 1 underflows on an empty
\* array and the call panics
BinaryDeleteMinUnguarded(s) ==
    IF Len(s) = 0
    THEN [storage |-> s, val |-> None, fault |-> TRUE]
    ELSE LET swapped == Swap(s, 0, Len(s) - 1)
         IN  [storage |-> SiftDown(Pop(swapped), 0),
              val |-> Some(swapped[Len(s)]), fault |-> FALSE]

\* no expression of delete_min can panic: pop() of an empty Vec is None, and
\* the indices 0 and len - 1 are in range once len > 1
BinaryDeleteMin(s) ==
    IF Len(s) <= 1
    THEN [storage |-> None, val |-> s, fault |-> FALSE]
    ELSE LET swapped == Swap(s, 0, Len(s) - 1)
         IN  [storage |-> SiftDown(Pop(swapped), 0),
              val |-> Some(swapped[Len(s)]), fault |-> FALSE]

\* faulty variant: the key is overwritten and the entry is not moved
BinaryDecreaseKeyNoSift(s, reference, new_key) ==
    IF reference >= Len(s)
    THEN [storage |-> s, fault |-> TRUE]
    ELSE [storage |-> [s EXCEPT ![reference + 1].key = new_key], fault |-> FALSE]

\* fault: the index expression storage[reference] is out of bounds
\* faulty variant: the last index counts as out of bounds
BinaryDecreaseKeyStrictBound(s, reference, new_key) ==
    IF reference + 1 >= Len(s)
    THEN [storage |-> s, fault |-> TRUE]
    ELSE [storage |-> SiftUp([s EXCEPT ![reference + 1].key = new_key], reference).storage,
          fault |-> FALSE]

\* faulty variant: a key larger than the current one is rejected with a panic
BinaryDecreaseKeyChecked(s, reference, new_key) ==
    IF reference >= Len(s) \/ new_key > At(s, reference).key
    THEN [storage |-> s, fault |-> TRUE]
    ELSE [storage |-> SiftUp([s EXCEPT ![reference + 1].key = new_key], reference).storage,
          fault |-> FALSE]

\* faulty variant: an index out of bounds is skipped without a panic
BinaryDecreaseKeySkipsMissing(s, reference, new_key) ==
    IF reference >= Len(s)
    THEN [storage |-> s, fault |-> FALSE]
    ELSE [storage |-> SiftUp([s EXCEPT ![reference + 1].key = new_key], reference).storage,
          fault |-> FALSE]

BinaryDecreaseKey(s, reference, new_key) ==
    IF reference >= Len(s)
    THEN [storage |-> s, fault |-> TRUE]
    ELSE [storage |-> SiftUp([s EXCEPT ![reference + 1].key = new_key],
                             reference).storage,
          fault |-> FALSE]

\* ------------------------------------------------------------------------
\* BinomialHeap
\* ------------------------------------------------------------------------
BinomialTree(entry, cs) == [root |-> entry, childs |-> cs]

\* faulty variant: the roots are not compared
TreeMergeNoSwap(self, othr) == [self EXCEPT !.childs = Append(self.childs, othr)]

\* faulty variant: the new child is put in front of the others
TreeMergeFront(self, othr) ==
    IF self.root.key > othr.root.key
    THEN [othr EXCEPT !.childs = <<self>> \o othr.childs]
    ELSE [self EXCEPT !.childs = <<othr>> \o self.childs]

TreeMerge(self, othr) ==
    IF self.root.key > othr.root.key
    THEN [othr EXCEPT !.childs = Append(othr.childs, self)]
    ELSE [self EXCEPT !.childs = Append(self.childs, othr)]

\* faulty variant: a third tree of a rank is not put back into the slot
RECURSIVE MergeRanksDropThird(_, _, _, _)
MergeRanksDropThird(selfRanks, otherRanks, rank, carry_tree) ==
    IF rank >= Len(otherRanks)
    THEN [ranks |-> selfRanks, carry_tree |-> carry_tree]
    ELSE LET trees == At(selfRanks, rank) \o At(otherRanks, rank) \o carry_tree
         IN  IF Len(trees) >= 2
             THEN MergeRanksDropThird(
                      [selfRanks EXCEPT ![rank + 1] = None],
                      otherRanks, rank + 1,
                      Some(TreeMerge(trees[1], trees[2])))
             ELSE MergeRanksDropThird([selfRanks EXCEPT ![rank + 1] = trees],
                                      otherRanks, rank + 1, None)

\* the for loop over other.ranks
RECURSIVE MergeRanks(_, _, _, _)
MergeRanks(selfRanks, otherRanks, rank, carry_tree) ==
    IF rank >= Len(otherRanks)
    THEN [ranks |-> selfRanks, carry_tree |-> carry_tree]
    ELSE LET trees == At(selfRanks, rank) \o At(otherRanks, rank) \o carry_tree
         IN  IF Len(trees) >= 2
             THEN MergeRanks(
                      [selfRanks EXCEPT ![rank + 1] = SubSeq(trees, 3, Len(trees))],
                      otherRanks, rank + 1,
                      Some(TreeMerge(trees[1], trees[2])))
             ELSE MergeRanks([selfRanks EXCEPT ![rank + 1] = trees],
                             otherRanks, rank + 1, None)

\* faulty variant: a carry that meets no tree is always pushed at the end
RECURSIVE PropagateCarryPush(_, _, _)
PropagateCarryPush(rs, next_rank, carry_tree) ==
    IF carry_tree = None
    THEN rs
    ELSE IF next_rank < Len(rs) /\ At(rs, next_rank) # None
         THEN PropagateCarryPush([rs EXCEPT ![next_rank + 1] = None], next_rank + 1,
                                 Some(TreeMerge(At(rs, next_rank)[1], carry_tree[1])))
         ELSE Append(rs, carry_tree)

\* the while-let loop that propagates the remaining carry
RECURSIVE PropagateCarry(_, _, _)
PropagateCarry(rs, next_rank, carry_tree) ==
    IF carry_tree = None
    THEN rs
    ELSE IF next_rank < Len(rs) /\ At(rs, next_rank) # None
         THEN PropagateCarry([rs EXCEPT ![next_rank + 1] = None], next_rank + 1,
                             Some(TreeMerge(At(rs, next_rank)[1], carry_tree[1])))
         ELSE IF next_rank < Len(rs)
              THEN PropagateCarry([rs EXCEPT ![next_rank + 1] = carry_tree],
                                  next_rank + 1, None)
              ELSE PropagateCarry(Append(rs, carry_tree), next_rank + 1, None)

BinomialMerge(self, othr) ==
    LET swap == Len(othr) > Len(self)
        a == IF swap THEN othr ELSE self
        b == IF swap THEN self ELSE othr
        looped == MergeRanks(a, b, 0, None)
    IN  PropagateCarry(looped.ranks, Len(b), looped.carry_tree)

BinomialInsert(rs, entry) ==
    BinomialMerge(rs, <<Some(BinomialTree(entry, << >>))>>)

\* min_by_key over the occupied ranks: the first rank holding the least root key
MinRank(rs) ==
    LET occupied == {i \in 0..(Len(rs) - 1) : At(rs, i) # None}
    IN  IF occupied = {}
        THEN None
        ELSE Some(CHOOSE i \in occupied : \A j \in occupied :
                      \/ At(rs, i)[1].root.key < At(rs, j)[1].root.key
                      \/ At(rs, i)[1].root.key = At(rs, j)[1].root.key /\ i <= j)

BinomialDeleteMin(rs) ==
    LET found == MinRank(rs)
    IN  IF found # None
        THEN LET min_rank == found[1]
                 tree == At(rs, min_rank)[1]
                 tmp_heap == [i \in 1..Len(tree.childs) |-> Some(tree.childs[i])]
             IN  [ranks |-> BinomialMerge([rs EXCEPT ![min_rank + 1] = None], tmp_heap),
                  val |-> Some(tree.root)]
        ELSE [ranks |-> rs, val |-> None]

\* ------------------------------------------------------------------------
\* RandomizedMeldableHeap.  flips is the sequence of outcomes of the
\* rand::random() calls, in the order the recursion draws them.
\* ------------------------------------------------------------------------
Node(entry) == [value |-> entry, left |-> None, right |-> None]

\* faulty variant: the two roots are never compared, the receiver's root stays on top
RECURSIVE MeldNoSwap(_, _, _)
MeldNoSwap(self, othr, flips) ==
    IF self # None
    THEN IF othr # None
         THEN IF Head(flips)
              THEN Some([self[1] EXCEPT !.right = MeldNoSwap(self[1].right, othr, Tail(flips))])
              ELSE Some([self[1] EXCEPT !.left = MeldNoSwap(self[1].left, othr, Tail(flips))])
         ELSE self
    ELSE othr

RECURSIVE Meld(_, _, _)
Meld(self, othr, flips) ==
    IF self # None
    THEN IF othr # None
         THEN LET swap == self[1].value.key > othr[1].value.key
                  top == IF swap THEN othr[1] ELSE self[1]
                  rest == IF swap THEN self ELSE othr
              IN  IF Head(flips)
                  THEN Some([top EXCEPT !.right = Meld(top.right, rest, Tail(flips))])
                  ELSE Some([top EXCEPT !.left = Meld(top.left, rest, Tail(flips))])
         ELSE self
    ELSE othr

RandomizedInsert(h, entry, flips) == Meld(h, Some(Node(entry)), flips)

\* faulty variant: the right child is not melded into the left one
RandomizedDeleteMinDropsRight(h, flips) ==
    IF h # None
    THEN [root |-> h[1].left, val |-> Some(h[1].value)]
    ELSE [root |-> h, val |-> None]

RandomizedDeleteMin(h, flips) ==
    IF h # None
    THEN [root |-> Meld(h[1].left, h[1].right, flips), val |-> Some(h[1].value)]
    ELSE [root |-> h, val |-> None]

\* ------------------------------------------------------------------------
\* Observations on the three structures
\* ------------------------------------------------------------------------
RECURSIVE TreeEntries(_)
TreeEntries(t) ==
    LET RECURSIVE Sum(_)
        Sum(i) == IF i = 0 THEN EmptyBag
                  ELSE TreeEntries(t.childs[i]) (+) Sum(i - 1)
    IN  SetToBag({t.root}) (+) Sum(Len(t.childs))

RECURSIVE RanksEntries(_)
RanksEntries(rs) ==
    IF rs = << >> THEN EmptyBag
    ELSE (IF Head(rs) = None THEN EmptyBag ELSE TreeEntries(Head(rs)[1]))
         (+) RanksEntries(Tail(rs))

RECURSIVE StorageEntries(_)
StorageEntries(s) ==
    IF s = << >> THEN EmptyBag
    ELSE SetToBag({Head(s)}) (+) StorageEntries(Tail(s))

RECURSIVE RootEntries(_)
RootEntries(h) ==
    IF h = None THEN EmptyBag
    ELSE SetToBag({h[1].value}) (+) RootEntries(h[1].left) (+) RootEntries(h[1].right)

BagKeys(b) == {e.key : e \in BagToSet(b)}
BagSize(b) == BagCardinality(b)

\* ------------------------------------------------------------------------
\* The state machine.  One heap of a chosen variant is constructed (Init),
\* or all three as in test() (InitTest); every insert and delete_min is
\* applied to each constructed heap, decrease_key to the BinaryHeap.
\* ------------------------------------------------------------------------
Capacity ==
    IF Cardinality(heaps) > 1 THEN MaxLockstep
    ELSE IF "binary" \in heaps THEN MaxBinary
    ELSE IF "binomial" \in heaps THEN MaxBinomial
    ELSE MaxRandomized

\* the outcomes of the rand::random() calls of one meld: one per level
Flips == [1..Max({MaxRandomized, MaxLockstep}) -> BOOLEAN]

Called(o, k, d, r) == [op |-> o, key |-> k, data |-> d, reference |-> r]

Constructed(hs) ==
    /\ heaps = hs
    /\ storage = << >>
    /\ ranks = << >>
    /\ root = None
    /\ other = << >>
    /\ call = Called("new", 0, FALSE, 0)
    /\ ref = 0
    /\ val1 = None
    /\ val2 = None
    /\ val3 = None
    /\ live = [h \in Variants |-> 0]
    /\ fresh = TRUE
    /\ fault = FALSE
    /\ pc = "insert"
    /\ inserted = EmptyBag
    /\ out1 = << >>
    /\ out2 = << >>
    /\ out3 = << >>
    /\ twin = None
    /\ val4 = None
    /\ held = None
    /\ peak = 0
    /\ loop = None

Init == \E v \in Variants : Constructed({v})

InitTest == Constructed(Variants)

Returned(v) == IF v = None THEN 0 ELSE 1

\* insert(entry) on every constructed heap
InsertAll(k, d) ==
    /\ \A h \in heaps : live[h] < Capacity
    /\ LET entry == HeapEntry(k, d)
           pushed == BinaryInsert(storage, entry)
       IN  /\ IF "binary" \in heaps
              THEN storage' = pushed.storage /\ ref' = pushed.index
              ELSE UNCHANGED <<storage, ref>>
           /\ IF "binomial" \in heaps
              THEN ranks' = BinomialInsert(ranks, entry)
              ELSE UNCHANGED ranks
           /\ IF "randomized" \in heaps
              THEN root' \in {RandomizedInsert(root, entry, flips) : flips \in Flips}
              ELSE UNCHANGED root
    /\ call' = Called("insert", k, d, 0)
    /\ live' = [h \in Variants |-> IF h \in heaps THEN live[h] + 1 ELSE live[h]]
    /\ fresh' = FALSE
    /\ val1' = None /\ val2' = None /\ val3' = None
    /\ fault' = FALSE
    /\ UNCHANGED <<heaps, other>>

\* delete_min() on every constructed heap
DeleteMinAll ==
    /\ \E randomized \in {RandomizedDeleteMin(root, flips) : flips \in Flips} :
       LET binary == BinaryDeleteMin(storage)
           binomial == BinomialDeleteMin(ranks)
       IN  /\ IF "binary" \in heaps
              THEN storage' = binary.storage /\ val1' = binary.val /\ fault' = binary.fault
              ELSE UNCHANGED storage /\ val1' = None /\ fault' = FALSE
           /\ IF "binomial" \in heaps
              THEN ranks' = binomial.ranks /\ val2' = binomial.val
              ELSE UNCHANGED ranks /\ val2' = None
           /\ IF "randomized" \in heaps
              THEN root' = randomized.root /\ val3' = randomized.val
              ELSE UNCHANGED root /\ val3' = None
    /\ live' = [h \in Variants |->
                   live[h] - Returned(CASE h = "binary" -> val1'
                                        [] h = "binomial" -> val2'
                                        [] h = "randomized" -> val3')]
    /\ call' = Called("delete_min", 0, FALSE, 0)
    /\ ref' = 0
    /\ UNCHANGED <<heaps, other, fresh>>

Insert(k, d) == InsertAll(k, d) /\ UNCHANGED history /\ UNCHANGED aside

DeleteMin == DeleteMinAll /\ UNCHANGED history /\ UNCHANGED aside

\* decrease_key within its precondition: an index in range, a key not larger
DecreaseKey(reference, new_key) ==
    /\ "binary" \in heaps
    /\ reference < Len(storage)
    /\ new_key <= At(storage, reference).key
    /\ storage' = BinaryDecreaseKey(storage, reference, new_key).storage
    /\ fault' = BinaryDecreaseKey(storage, reference, new_key).fault
    /\ call' = Called("decrease_key", new_key, At(storage, reference).data, reference)
    /\ ref' = 0
    /\ val1' = None /\ val2' = None /\ val3' = None
    /\ UNCHANGED <<heaps, ranks, root, other, live, fresh>>
    /\ UNCHANGED history
    /\ UNCHANGED aside

Next ==
    \/ \E k \in Keys, d \in Data : Insert(k, d)
    \/ DeleteMin
    \/ \E reference \in 0..(MaxBinary - 1), new_key \in Keys : DecreaseKey(reference, new_key)

Spec == Init /\ [][Next]_vars

\* ---- the three heaps driven with the same calls, in any order; the payload
\* is the unit value, as in test() ----
Unit == FALSE

NextLockstep ==
    \/ \E k \in Keys : Insert(k, Unit)
    \/ DeleteMin

SpecLockstep == InitTest /\ [][NextLockstep]_vars

\* ---- test(): insert every value, then delete_min until the heaps are empty ----
KeyOf(v) == IF v = None THEN None ELSE Some(v[1].key)

TestInsert(k) ==
    /\ pc = "insert"
    /\ InsertAll(k, Unit)
    /\ inserted' = inserted (+) SetToBag({k})
    /\ UNCHANGED <<pc, out1, out2, out3>>
    /\ UNCHANGED aside

TestDeleteMin ==
    /\ pc \in {"insert", "delete"}
    /\ DeleteMinAll
    /\ out1' = out1 \o KeyOf(val1')
    /\ out2' = out2 \o KeyOf(val2')
    /\ out3' = out3 \o KeyOf(val3')
    /\ pc' = IF val1' = None /\ val2' = None /\ val3' = None THEN "done" ELSE "delete"
    /\ UNCHANGED inserted
    /\ UNCHANGED aside

NextTest ==
    \/ \E k \in Keys : TestInsert(k)
    \/ TestDeleteMin

SpecTest == InitTest /\ [][NextTest]_vars

\* ---- BinomialHeap::merge of two heaps built by insert and delete_min ----
\* The payload, which the code never reads, records the heap an entry was
\* inserted into: FALSE for self, TRUE for other.  The run ends with the merge.
Operand(which) == IF which = "self" THEN ranks ELSE other

OperandInsert(which, k) ==
    /\ call.op # "merge"
    /\ BagSize(RanksEntries(Operand(which))) < MaxOperand
    /\ LET entry == HeapEntry(k, which = "other")
       IN  IF which = "self"
           THEN /\ ranks' = BinomialInsert(ranks, entry)
                /\ live' = [live EXCEPT !.binomial = @ + 1]
                /\ UNCHANGED other
           ELSE /\ other' = BinomialInsert(other, entry)
                /\ UNCHANGED <<ranks, live>>
    /\ call' = Called("insert", k, which = "other", 0)
    /\ fresh' = FALSE
    /\ val2' = None
    /\ UNCHANGED <<heaps, storage, root, ref, val1, val3, fault>>
    /\ UNCHANGED history
    /\ UNCHANGED aside

OperandDeleteMin(which) ==
    /\ call.op # "merge"
    /\ LET deleted == BinomialDeleteMin(Operand(which))
       IN  /\ IF which = "self"
              THEN /\ ranks' = deleted.ranks
                   /\ live' = [live EXCEPT !.binomial = @ - Returned(deleted.val)]
                   /\ UNCHANGED other
              ELSE /\ other' = deleted.ranks
                   /\ UNCHANGED <<ranks, live>>
           /\ val2' = deleted.val
    /\ call' = Called("delete_min", 0, FALSE, 0)
    /\ UNCHANGED <<heaps, storage, root, ref, val1, val3, fresh, fault>>
    /\ UNCHANGED history
    /\ UNCHANGED aside

\* self.merge(other): other is moved into the call, an empty heap stands for it after
Merge ==
    /\ call.op # "merge"
    /\ ranks' = BinomialMerge(ranks, other)
    /\ other' = << >>
    /\ live' = [live EXCEPT !.binomial = @ + BagSize(RanksEntries(other))]
    /\ call' = Called("merge", 0, FALSE, 0)
    /\ val2' = None
    /\ UNCHANGED <<heaps, storage, root, ref, val1, val3, fresh, fault>>
    /\ UNCHANGED history
    /\ UNCHANGED aside

InitMerge == Constructed({"binomial"})

NextMerge ==
    \/ \E which \in {"self", "other"}, k \in Keys : OperandInsert(which, k)
    \/ \E which \in {"self", "other"} : OperandDeleteMin(which)
    \/ Merge

SpecMerge == InitMerge /\ [][NextMerge]_vars

\* ---- two RandomizedMeldableHeaps given the same calls; each draws its own coins ----
TwinInsert(k, d) ==
    /\ live.randomized < MaxTwin
    /\ root' \in {RandomizedInsert(root, HeapEntry(k, d), flips) : flips \in Flips}
    /\ twin' \in {RandomizedInsert(twin, HeapEntry(k, d), flips) : flips \in Flips}
    /\ live' = [live EXCEPT !.randomized = @ + 1]
    /\ call' = Called("insert", k, d, 0)
    /\ fresh' = FALSE
    /\ val3' = None /\ val4' = None
    /\ UNCHANGED <<heaps, storage, ranks, other, ref, val1, val2, fault, held, peak, loop>>
    /\ UNCHANGED history

TwinDeleteMin ==
    /\ \E first \in {RandomizedDeleteMin(root, flips) : flips \in Flips},
          second \in {RandomizedDeleteMin(twin, flips) : flips \in Flips} :
          /\ root' = first.root /\ val3' = first.val
          /\ twin' = second.root /\ val4' = second.val
    /\ live' = [live EXCEPT !.randomized = @ - Returned(val3')]
    /\ call' = Called("delete_min", 0, FALSE, 0)
    /\ UNCHANGED <<heaps, storage, ranks, other, ref, val1, val2, fresh, fault, held, peak, loop>>
    /\ UNCHANGED history

InitTwin == Constructed({"randomized"})

NextTwin ==
    \/ \E k \in Keys : TwinInsert(k, Unit)
    \/ TwinDeleteMin

SpecTwin == InitTwin /\ [][NextTwin]_vars

\* ---- a BinaryHeap whose caller keeps an EntryRef across later calls and
\* passes any index and any key to decrease_key; a panic ends the run ----
UncheckedInsert(k, d, keep) ==
    /\ ~fault
    /\ live.binary < MaxUnchecked
    /\ InsertAll(k, d)
    /\ held' = IF keep /\ held # None THEN held
               ELSE Some([reference |-> ref', entry |-> HeapEntry(k, d)])
    /\ UNCHANGED <<twin, val4, peak, loop>>
    /\ UNCHANGED history

UncheckedDeleteMin ==
    /\ ~fault
    /\ DeleteMinAll
    /\ UNCHANGED history
    /\ UNCHANGED aside

UncheckedDecreaseKey(reference, new_key) ==
    /\ ~fault
    /\ "binary" \in heaps
    /\ storage' = BinaryDecreaseKey(storage, reference, new_key).storage
    /\ fault' = BinaryDecreaseKey(storage, reference, new_key).fault
    /\ call' = Called("decrease_key", new_key, Unit, reference)
    /\ ref' = 0
    /\ val1' = None /\ val2' = None /\ val3' = None
    /\ UNCHANGED <<heaps, ranks, root, other, live, fresh>>
    /\ UNCHANGED history
    /\ UNCHANGED aside

InitUnchecked == Constructed({"binary"})

NextUnchecked ==
    \/ \E k \in Keys, d \in Data, keep \in BOOLEAN : UncheckedInsert(k, d, keep)
    \/ UncheckedDeleteMin
    \/ \E reference \in 0..MaxUnchecked, new_key \in Keys :
          UncheckedDecreaseKey(reference, new_key)

SpecUnchecked == InitUnchecked /\ [][NextUnchecked]_vars

\* ---- a BinomialHeap, with the largest number of entries it has held ----
PeakInsert(k, d) ==
    /\ InsertAll(k, d)
    /\ peak' = Max({peak, live'.binomial})
    /\ UNCHANGED <<twin, val4, held, loop>>
    /\ UNCHANGED history

PeakDeleteMin ==
    /\ DeleteMinAll
    /\ UNCHANGED history
    /\ UNCHANGED aside

InitPeak == Constructed({"binomial"})

NextPeak ==
    \/ \E k \in Keys, d \in Data : PeakInsert(k, d)
    \/ PeakDeleteMin

SpecPeak == InitPeak /\ [][NextPeak]_vars

\* ------------------------------------------------------------------------
\* The loops and the recursion, one iteration or one call at a time
\* ------------------------------------------------------------------------
\* faulty variant: the else branch with the break is missing
SiftUpStepNoBreak(s, current_index) ==
    IF current_index # 0
    THEN LET parent_index == (current_index - 1) \div 2
         IN  IF At(s, current_index).key < At(s, parent_index).key
             THEN [storage |-> Swap(s, current_index, parent_index),
                   current_index |-> parent_index, done |-> FALSE]
             ELSE [storage |-> s, current_index |-> current_index, done |-> FALSE]
    ELSE [storage |-> s, current_index |-> current_index, done |-> TRUE]

\* one pass of the while loop of insert and decrease_key
SiftUpStep(s, current_index) ==
    IF current_index # 0
    THEN LET parent_index == (current_index - 1) \div 2
         IN  IF At(s, current_index).key < At(s, parent_index).key
             THEN [storage |-> Swap(s, current_index, parent_index),
                   current_index |-> parent_index, done |-> FALSE]
             ELSE [storage |-> s, current_index |-> current_index, done |-> TRUE]
    ELSE [storage |-> s, current_index |-> current_index, done |-> TRUE]

\* one pass of the loop of delete_min
SiftDownStep(s, current_index) ==
    LET child_index == 2 * current_index + 1
    IN  IF child_index < Len(s)
           /\ At(s, current_index).key > At(s, MinChildIndex(s, child_index)).key
        THEN [storage |-> Swap(s, current_index, MinChildIndex(s, child_index)),
              current_index |-> MinChildIndex(s, child_index), done |-> FALSE]
        ELSE [storage |-> s, current_index |-> current_index, done |-> TRUE]

\* one pass of the while-let loop of BinomialHeap::merge
CarryStep(rs, next_rank, carry_tree) ==
    IF carry_tree = None
    THEN [ranks |-> rs, next_rank |-> next_rank, carry_tree |-> None, done |-> TRUE]
    ELSE IF next_rank < Len(rs) /\ At(rs, next_rank) # None
         THEN [ranks |-> [rs EXCEPT ![next_rank + 1] = None],
               next_rank |-> next_rank + 1,
               carry_tree |-> Some(TreeMerge(At(rs, next_rank)[1], carry_tree[1])),
               done |-> FALSE]
         ELSE IF next_rank < Len(rs)
              THEN [ranks |-> [rs EXCEPT ![next_rank + 1] = carry_tree],
                    next_rank |-> next_rank + 1, carry_tree |-> None, done |-> FALSE]
              ELSE [ranks |-> Append(rs, carry_tree),
                    next_rank |-> next_rank + 1, carry_tree |-> None, done |-> FALSE]

\* one call of meld up to its recursive call: either it descends into a child
\* of the smaller root, which it keeps in its frame, or it returns self
MeldCall(self, othr, flip) ==
    IF self # None /\ othr # None
    THEN LET swap == self[1].value.key > othr[1].value.key
             top == IF swap THEN othr[1] ELSE self[1]
             rest == IF swap THEN self ELSE othr
         IN  [frame |-> Some([root |-> top, right |-> flip]),
              self |-> IF flip THEN top.right ELSE top.left,
              other |-> rest]
    ELSE [frame |-> None,
          self |-> IF self # None THEN self ELSE othr,
          other |-> None]

\* the return of a recursive call: self.root = Some(root)
MeldReturn(frame, melded) ==
    IF frame.right
    THEN Some([frame.root EXCEPT !.right = melded])
    ELSE Some([frame.root EXCEPT !.left = melded])

LoopInsert(k, d) ==
    /\ loop = None
    /\ \A h \in heaps : live[h] < MaxLoop
    /\ LET entry == HeapEntry(k, d)
           single == <<Some(BinomialTree(entry, << >>))>>
           swap == Len(single) > Len(ranks)
           a == IF swap THEN single ELSE ranks
           b == IF swap THEN ranks ELSE single
           looped == MergeRanks(a, b, 0, None)
       IN  CASE "binary" \in heaps ->
                  /\ storage' = Append(storage, entry)
                  /\ loop' = Some([kind |-> "sift_up", op |-> "insert",
                                      current_index |-> Len(storage),
                                      goal |-> BinaryInsert(storage, entry).storage])
                  /\ UNCHANGED <<ranks, root>>
             [] "binomial" \in heaps ->
                  /\ ranks' = looped.ranks
                  /\ loop' = Some([kind |-> "carry", next_rank |-> Len(b),
                                      carry_tree |-> looped.carry_tree, ret |-> None,
                                      goal |-> BinomialInsert(ranks, entry)])
                  /\ UNCHANGED <<storage, root>>
             [] "randomized" \in heaps ->
                  /\ loop' = Some([kind |-> "meld", returning |-> FALSE,
                                      self |-> root, other |-> Some(Node(entry)),
                                      frames |-> << >>, path |-> << >>, ret |-> None,
                                      from |-> <<root, Some(Node(entry))>>])
                  /\ UNCHANGED <<storage, ranks, root>>
    /\ call' = Called("insert", k, d, 0)
    /\ live' = [h \in Variants |-> IF h \in heaps THEN live[h] + 1 ELSE live[h]]
    /\ fresh' = FALSE
    /\ val1' = None /\ val2' = None /\ val3' = None
    /\ ref' = 0
    /\ UNCHANGED <<heaps, other, fault, twin, val4, held, peak>>
    /\ UNCHANGED history

LoopDeleteMin ==
    /\ loop = None
    /\ CASE "binary" \in heaps ->
              /\ IF Len(storage) <= 1
                 THEN /\ storage' = None
                      /\ val1' = storage
                      /\ loop' = None
                 ELSE /\ storage' = Pop(Swap(storage, 0, Len(storage) - 1))
                      /\ val1' = None
                      /\ loop' = Some([kind |-> "sift_down", current_index |-> 0,
                                          ret |-> Some(At(storage, 0)),
                                          goal |-> BinaryDeleteMin(storage).storage])
              /\ live' = [live EXCEPT !.binary = @ - Returned(storage)]
              /\ val2' = None /\ val3' = None
              /\ UNCHANGED <<ranks, root>>
         [] "binomial" \in heaps ->
              /\ IF MinRank(ranks) = None
                 THEN /\ loop' = None
                      /\ UNCHANGED ranks
                 ELSE LET min_rank == MinRank(ranks)[1]
                          tree == At(ranks, min_rank)[1]
                          tmp_heap == [i \in 1..Len(tree.childs) |-> Some(tree.childs[i])]
                          taken == [ranks EXCEPT ![min_rank + 1] = None]
                          looped == MergeRanks(taken, tmp_heap, 0, None)
                      IN  /\ ranks' = looped.ranks
                          /\ loop' = Some([kind |-> "carry", next_rank |-> Len(tmp_heap),
                                              carry_tree |-> looped.carry_tree,
                                              ret |-> Some(tree.root),
                                              goal |-> BinomialDeleteMin(ranks).ranks])
              /\ live' = [live EXCEPT !.binomial = @ - Returned(MinRank(ranks))]
              /\ val1' = None /\ val2' = None /\ val3' = None
              /\ UNCHANGED <<storage, root>>
         [] "randomized" \in heaps ->
              /\ IF root = None
                 THEN loop' = None
                 ELSE loop' = Some([kind |-> "meld", returning |-> FALSE,
                                       self |-> root[1].left, other |-> root[1].right,
                                       frames |-> << >>, path |-> << >>,
                                       ret |-> Some(root[1].value),
                                       from |-> <<root[1].left, root[1].right>>])
              /\ live' = [live EXCEPT !.randomized = @ - Returned(root)]
              /\ val1' = None /\ val2' = None /\ val3' = None
              /\ UNCHANGED <<storage, ranks, root>>
    /\ call' = Called("delete_min", 0, FALSE, 0)
    /\ ref' = 0
    /\ UNCHANGED <<heaps, other, fresh, fault, twin, val4, held, peak>>
    /\ UNCHANGED history

LoopDecreaseKey(reference, new_key) ==
    /\ loop = None
    /\ "binary" \in heaps
    /\ reference < Len(storage)
    /\ new_key <= At(storage, reference).key
    /\ storage' = [storage EXCEPT ![reference + 1].key = new_key]
    /\ loop' = Some([kind |-> "sift_up", op |-> "decrease_key",
                        current_index |-> reference,
                        goal |-> BinaryDecreaseKey(storage, reference, new_key).storage])
    /\ call' = Called("decrease_key", new_key, At(storage, reference).data, reference)
    /\ ref' = 0
    /\ val1' = None /\ val2' = None /\ val3' = None
    /\ UNCHANGED <<heaps, ranks, root, other, live, fresh, fault, twin, val4, held, peak>>
    /\ UNCHANGED history

\* the next iteration of the loop in progress, or its exit and the return
LoopStep ==
    /\ loop # None
    /\ LET l == loop[1]
       IN  CASE l.kind = "sift_up" ->
                  LET step == SiftUpStep(storage, l.current_index)
                  IN  /\ storage' = step.storage
                      /\ loop' = IF step.done THEN None
                                 ELSE Some([l EXCEPT !.current_index = step.current_index])
                      /\ ref' = IF step.done /\ l.op = "insert" THEN step.current_index ELSE ref
                      /\ UNCHANGED <<ranks, root, val1, val2, val3>>
             [] l.kind = "sift_down" ->
                  LET step == SiftDownStep(storage, l.current_index)
                  IN  /\ storage' = step.storage
                      /\ loop' = IF step.done THEN None
                                 ELSE Some([l EXCEPT !.current_index = step.current_index])
                      /\ val1' = IF step.done THEN l.ret ELSE val1
                      /\ UNCHANGED <<ranks, root, ref, val2, val3>>
             [] l.kind = "carry" ->
                  LET step == CarryStep(ranks, l.next_rank, l.carry_tree)
                  IN  /\ ranks' = step.ranks
                      /\ loop' = IF step.done THEN None
                                 ELSE Some([l EXCEPT !.next_rank = step.next_rank,
                                                        !.carry_tree = step.carry_tree])
                      /\ val2' = IF step.done THEN l.ret ELSE val2
                      /\ UNCHANGED <<storage, root, ref, val1, val3>>
             [] l.kind = "meld" /\ ~l.returning ->
                  /\ \E flip \in BOOLEAN :
                        LET called == MeldCall(l.self, l.other, flip)
                        IN  loop' = IF called.frame # None
                                    THEN Some([l EXCEPT !.self = called.self,
                                                           !.other = called.other,
                                                           !.frames = Append(@, called.frame[1]),
                                                           !.path = Append(@, flip)])
                                    ELSE Some([l EXCEPT !.self = called.self,
                                                           !.other = called.other,
                                                           !.returning = TRUE])
                  /\ UNCHANGED <<storage, ranks, root, ref, val1, val2, val3>>
             [] l.kind = "meld" /\ l.returning ->
                  /\ IF l.frames = << >>
                     THEN /\ root' = l.self
                          /\ val3' = l.ret
                          /\ loop' = None
                     ELSE /\ loop' = Some([l EXCEPT
                                 !.self = MeldReturn(l.frames[Len(l.frames)], l.self),
                                 !.frames = SubSeq(@, 1, Len(@) - 1)])
                          /\ UNCHANGED <<root, val3>>
                  /\ UNCHANGED <<storage, ranks, ref, val1, val2>>
    /\ UNCHANGED <<heaps, other, call, live, fresh, fault, twin, val4, held, peak>>
    /\ UNCHANGED history

NextLoops ==
    \/ \E k \in Keys, d \in Data : LoopInsert(k, d)
    \/ LoopDeleteMin
    \/ \E reference \in 0..(MaxLoop - 1), new_key \in Keys : LoopDecreaseKey(reference, new_key)
    \/ LoopStep

SpecLoops == Init /\ [][NextLoops]_vars

\* the thread that called the operation keeps running it
SpecLoopsFair == SpecLoops /\ WF_vars(LoopStep)

\* ------------------------------------------------------------------------
\* Properties
\* ------------------------------------------------------------------------
Min(S) == CHOOSE x \in S : \A y \in S : x <= y

RECURSIVE Pow2(_)
Pow2(r) == IF r = 0 THEN 1 ELSE 2 * Pow2(r - 1)

\* bit r of the binary representation of n
Bit(n, r) == (n \div Pow2(r)) % 2 = 1

\* v is Some entry whose key is <= every key of the bag of entries b
LeastOf(v, b) == v # None /\ \A e \in BagToSet(b) : v[1].key <= e.key

HeapProperty(s) ==
    \A i \in 1..(Len(s) - 1) : At(s, (i - 1) \div 2).key <= At(s, i).key

Occupied(rs) == {r \in 0..(Len(rs) - 1) : At(rs, r) # None}

RECURSIVE ValidTree(_, _)
ValidTree(t, r) ==
    /\ Len(t.childs) = r
    /\ BagSize(TreeEntries(t)) = Pow2(r)
    /\ \A e \in BagToSet(TreeEntries(t)) : t.root.key <= e.key
    /\ \A i \in 1..Len(t.childs) : ValidTree(t.childs[i], i - 1)

ValidTrees(rs) == \A r \in Occupied(rs) : ValidTree(At(rs, r)[1], r)

\* the occupied slots of rs spell the binary representation of n
SpellsSize(rs, n) ==
    /\ \A r \in 0..(Len(rs) - 1) : (At(rs, r) # None) <=> Bit(n, r)
    /\ n < Pow2(Len(rs))

RootKeys(rs) == {At(rs, r)[1].root.key : r \in Occupied(rs)}

\* the keys of the bag b in non-decreasing order
RECURSIVE Ascending(_)
Ascending(b) ==
    IF b = EmptyBag THEN << >>
    ELSE LET m == Min(BagToSet(b))
         IN  <<m>> \o Ascending(b (-) SetToBag({m}))

\* C1: on each variant, after any inserts, delete_mins and (BinaryHeap)
\* decrease_keys within their precondition, a delete_min on a heap that holds
\* an entry returns an entry whose key is <= the key of every entry stored
\* just before the call.
C1_DeleteMinReturnsLeast ==
    [][call'.op = "delete_min" =>
         /\ ("binary" \in heaps /\ storage # << >>)
                => LeastOf(val1', StorageEntries(storage))
         /\ ("binomial" \in heaps /\ RanksEntries(ranks) # EmptyBag)
                => LeastOf(val2', RanksEntries(ranks))
         /\ ("randomized" \in heaps /\ root # None)
                => LeastOf(val3', RootEntries(root))]_vars

\* a delete_min that sifted the last entry down from the root of a full BinaryHeap
\* holding both keys
C1_Witness ==
    /\ call.op = "delete_min"
    /\ heaps = {"binary"}
    /\ val1 # None
    /\ Len(storage) = MaxBinary - 1
    /\ BagKeys(StorageEntries(storage)) = Keys

\* C2: on each variant, inserting a multiset of keys into an empty heap and
\* then calling delete_min until it returns None yields the keys in
\* non-decreasing order, and the same sequence whatever the insertion order
\* was: the sequence is a function of the multiset.
C2_SortedExtraction ==
    pc = "done" =>
        /\ out1 = Ascending(inserted)
        /\ out2 = Ascending(inserted)
        /\ out3 = Ascending(inserted)

\* a finished run that inserted as many entries as the bound allows, of both keys
C2_Witness ==
    /\ pc = "done"
    /\ Len(out1) = MaxLockstep
    /\ out1[1] < out1[Len(out1)]

\* C3: the same inserts and delete_mins applied step by step to the three
\* heaps: every delete_min returns the same key from all three, or None from
\* all three, whatever the coin flips are.
C3_VariantsAgree ==
    call.op = "delete_min" =>
        /\ KeyOf(val1) = KeyOf(val2)
        /\ KeyOf(val1) = KeyOf(val3)

\* a delete_min that returns the larger key while the heaps hold more entries
C3_Witness ==
    /\ call.op = "delete_min"
    /\ KeyOf(val1) = Some(MaxKey)
    /\ Len(storage) >= 2

\* C4: on each variant, delete_min returns None exactly when the number of
\* inserts so far equals the number of earlier delete_min calls that returned
\* Some; so after n inserts into an empty heap the first n delete_mins return
\* Some and the next one None.
C4_NoneExactlyWhenDrained ==
    [][call'.op = "delete_min" =>
         /\ "binary" \in heaps => (val1' = None <=> live.binary = 0)
         /\ "binomial" \in heaps => (val2' = None <=> live.binomial = 0)
         /\ "randomized" \in heaps => (val3' = None <=> live.randomized = 0)]_vars

\* the delete_min after the last of the inserted entries was taken out
C4_Witness ==
    /\ call.op = "delete_min"
    /\ heaps = {"binomial"}
    /\ ~fresh
    /\ val2 = None
    /\ Len(ranks) = 3

\* C5: delete_min on a freshly constructed heap of any variant returns None,
\* does not fail, and leaves the empty storage / rank sequence / root as it is.
C5_FreshDeleteMin ==
    [][(fresh /\ call'.op = "delete_min") =>
         /\ val1' = None /\ val2' = None /\ val3' = None
         /\ fault' = FALSE
         /\ storage = << >> /\ storage' = storage
         /\ ranks = << >> /\ ranks' = ranks
         /\ root = None /\ root' = root]_vars

C5_Witness == fresh /\ call.op = "delete_min"

\* C6: decrease_key(i, k) with i < length and k <= the key at index i, on an
\* array with the heap property: the array keeps the heap property, the
\* targeted entry is still stored with its payload and key k and no other
\* entry changed; if k is strictly smaller than every other stored key the
\* next delete_min returns that entry.
C6_DecreaseKey ==
    [][(call'.op = "decrease_key" /\ HeapProperty(storage)) =>
         LET i == call'.reference
             old == At(storage, i)
             new == HeapEntry(call'.key, old.data)
         IN  /\ HeapProperty(storage')
             /\ fault' = FALSE
             /\ StorageEntries(storage') (+) SetToBag({old})
                    = StorageEntries(storage) (+) SetToBag({new})
             /\ (\A j \in 0..(Len(storage) - 1) : j # i => new.key < At(storage, j).key)
                    => BinaryDeleteMin(storage').val = Some(new)]_vars

\* a decrease_key that moved an entry from the third level to the root
C6_Witness ==
    /\ call.op = "decrease_key"
    /\ call.reference >= 3
    /\ At(storage, 0) = HeapEntry(call.key, call.data)
    /\ \A j \in 1..(Len(storage) - 1) : At(storage, j).key > call.key

\* C7: BinomialHeap::merge of two valid binomial heaps A and B, whichever has
\* the longer rank sequence: the receiver is then a valid binomial heap that
\* holds exactly the entries of A and of B, its least root key is the least
\* of the root keys of A and B, and slot r is occupied exactly when bit r of
\* a + b is 1.
C7_Merge ==
    [][(/\ call'.op = "merge"
        /\ ValidTrees(ranks) /\ SpellsSize(ranks, BagSize(RanksEntries(ranks)))
        /\ ValidTrees(other) /\ SpellsSize(other, BagSize(RanksEntries(other)))) =>
         LET a == RanksEntries(ranks)
             b == RanksEntries(other)
         IN  /\ ValidTrees(ranks')
             /\ RanksEntries(ranks') = a (+) b
             /\ SpellsSize(ranks', BagSize(a) + BagSize(b))
             /\ RootKeys(ranks') # {}
                    => Min(RootKeys(ranks')) = Min(RootKeys(ranks) \cup RootKeys(other))]_vars

\* the merge of two heaps of three entries: ranks 0 and 1 of both are occupied,
\* so that rank 1 sees the receiver's tree, the argument's tree and a carry
C7_Witness ==
    /\ call.op = "merge"
    /\ BagSize(RanksEntries(ranks)) = 6
    /\ CopiesIn(HeapEntry(0, TRUE), RanksEntries(ranks))
         + CopiesIn(HeapEntry(1, TRUE), RanksEntries(ranks)) = 3
    /\ BagKeys(RanksEntries(ranks)) = {0, 1}

\* C8: after any inserts, delete_mins and decrease_keys within their
\* precondition, key(storage[(i-1)/2]) <= key(storage[i]) for 1 <= i < length.
C8_HeapProperty == HeapProperty(storage)

\* a delete_min that left four entries of different keys in the array
C8_Witness ==
    /\ call.op = "delete_min"
    /\ Len(storage) >= 4
    /\ At(storage, 0).key < At(storage, 3).key

\* C9: after any inserts and delete_mins, every occupied slot ranks[r] holds a
\* tree of exactly 2^r entries whose root has exactly r children, the child at
\* position i being such a tree of rank i, and every node's key is <= the keys
\* of its descendants.
C9_BinomialTrees == ValidTrees(ranks)

\* the six entries left by a delete_min on seven
C9_Witness ==
    /\ call.op = "delete_min"
    /\ Occupied(ranks) = {1, 2}
    /\ BagKeys(RanksEntries(ranks)) = Keys

\* C10: after any inserts and delete_mins, with n the number of entries
\* stored, ranks[r] is occupied iff bit r of n is 1; no bit of n lies beyond
\* the rank sequence, whose slots past the highest set bit are empty.  n is
\* counted in the trees, and is the number of entries inserted and not yet
\* returned.
C10_RankOccupancy ==
    /\ SpellsSize(ranks, BagSize(RanksEntries(ranks)))
    /\ "binomial" \in heaps => SpellsSize(ranks, live.binomial)

\* one entry left in a rank sequence of three slots
C10_Witness ==
    /\ call.op = "delete_min"
    /\ Len(ranks) = 3
    /\ Occupied(ranks) = {0}

\* ------------------------------------------------------------------------
\* RandomizedMeldableHeap: order along every path
\* ------------------------------------------------------------------------
RECURSIVE Ordered(_)
Ordered(h) ==
    \/ h = None
    \/ /\ h[1].left # None => h[1].value.key <= h[1].left[1].value.key
       /\ h[1].right # None => h[1].value.key <= h[1].right[1].value.key
       /\ Ordered(h[1].left)
       /\ Ordered(h[1].right)

\* melded is what self.meld(othr) may leave as far as its root goes: the
\* smaller-keyed of the two roots, the root of self when the keys are equal
MeldedRoot(self, othr, melded) ==
    /\ self # None /\ othr # None =>
           /\ melded # None
           /\ melded[1].value = IF self[1].value.key > othr[1].value.key
                                THEN othr[1].value
                                ELSE self[1].value
    /\ self = None => melded = othr
    /\ othr = None => melded = self

\* C11: after every insert and delete_min, for every outcome of the coin
\* flips, the key of each node of the RandomizedMeldableHeap is <= the key at
\* the root of its left and of its right child; and the meld that an insert
\* (the heap with a new single node) or a delete_min (left with right) makes
\* of two such heaps leaves on top the smaller-keyed of the two roots, the
\* receiver's on a tie.
C11_MeldOrder ==
    []["randomized" \in heaps =>
          /\ Ordered(root')
          /\ call'.op = "insert" =>
                 MeldedRoot(root, Some(Node(HeapEntry(call'.key, call'.data))), root')
          /\ call'.op = "delete_min" /\ root # None =>
                 MeldedRoot(root[1].left, root[1].right, root')]_vars

\* an insert whose key equals that of the root: the root stayed on top
C11_Witness ==
    /\ "randomized" \in heaps
    /\ call.op = "insert"
    /\ root # None
    /\ root[1].value.key = call.key
    /\ root[1].value.data # call.data
    /\ root[1].left # None
    /\ root[1].right # None

\* C12: two RandomizedMeldableHeaps that receive the same sequence of insert
\* and delete_min calls and differ only in their coin flips return the same
\* key, or both None, from every delete_min.
C12_FlipsDoNotShowInKeys ==
    call.op = "delete_min" => KeyOf(val3) = KeyOf(val4)

C12_Witness ==
    /\ call.op = "delete_min"
    /\ val3 # None
    /\ root # None
    /\ RootEntries(root) = RootEntries(twin)
    /\ root # twin

\* ------------------------------------------------------------------------
\* Conservation of entries
\* ------------------------------------------------------------------------
StoredIn(v, s, rs, h) ==
    CASE v = "binary" -> StorageEntries(s)
      [] v = "binomial" -> RanksEntries(rs)
      [] v = "randomized" -> RootEntries(h)

ReturnedBy(v, r1, r2, r3) ==
    CASE v = "binary" -> r1
      [] v = "binomial" -> r2
      [] v = "randomized" -> r3

ParentIndex(i) == (i - 1) \div 2

\* index to lies on the path from index from to the root, and every slot of
\* that path strictly below to holds a key greater than k
RECURSIVE PassedOnlyGreater(_, _, _, _)
PassedOnlyGreater(s, from, to, k) ==
    IF from = to THEN TRUE
    ELSE IF from = 0 THEN FALSE
    ELSE At(s, from).key > k /\ PassedOnlyGreater(s, ParentIndex(from), to, k)

\* C14: the index r returned by BinaryHeap::insert(e) is where e rests when
\* the call returns: r < length and storage[r] is e; e was moved up from the
\* last slot only past parents with a strictly greater key (which now lie on
\* the path below r), and the parent of r, if any, has a key <= that of e, so
\* e stops below a parent with an equal key.
C14_InsertReturnsRestingIndex ==
    "binary" \in heaps /\ call.op = "insert" =>
        /\ ref < Len(storage)
        /\ At(storage, ref) = HeapEntry(call.key, call.data)
        /\ PassedOnlyGreater(storage, Len(storage) - 1, ref, call.key)
        /\ ref > 0 => At(storage, ParentIndex(ref)).key <= call.key

C14_Witness ==
    /\ "binary" \in heaps
    /\ call.op = "insert"
    /\ ref > 0
    /\ ref < Len(storage) - 1
    /\ At(storage, ParentIndex(ref)).key = call.key

\* ------------------------------------------------------------------------
\* BinaryHeap: decrease_key outside its precondition
\* ------------------------------------------------------------------------
\* the kept EntryRef is in range and the slot it names holds another entry
Stale ==
    /\ held # None
    /\ held[1].reference < Len(storage)
    /\ At(storage, held[1].reference) # held[1].entry

\* storage after is storage before with the key of entry old replaced by k
Rekeyed(before, after, old, k) ==
    /\ StorageEntries(after) (+) SetToBag({old})
          = StorageEntries(before) (+) SetToBag({HeapEntry(k, old.data)})
    /\ Len(after) = Len(before)

\* C15: an EntryRef r returned by insert for entry e is not kept up to date:
\* when later calls have put a different entry at index r, decrease_key(r, k)
\* does not fail (r < length) and replaces the key of the entry that is now at
\* index r, and of no other; nothing compares the slot with e.
C15_StaleReference ==
    [][Stale /\ call'.op = "decrease_key" /\ call'.reference = held[1].reference =>
          /\ ~fault'
          /\ Rekeyed(storage, storage', At(storage, held[1].reference), call'.key)]_vars

C15_Witness ==
    /\ call.op = "decrease_key"
    /\ ~fault
    /\ held # None
    /\ call.reference = held[1].reference
    /\ held[1].entry.key = 1
    /\ call.key = 0
    /\ \E i \in 1..Len(storage) :
          /\ storage[i] = held[1].entry
          /\ \A j \in 1..Len(storage) : j # i => storage[j].data # held[1].entry.data
    /\ \E i \in 1..Len(storage) : storage[i].key = 0

\* C16: decrease_key with an index in range and a new key greater than the
\* current key of that entry replaces the key and returns normally; when the
\* array satisfied the heap property, the entry stays at its index, and the
\* heap property is lost exactly when the new key exceeds the key of a child.
C16_KeyIncrease ==
    [][/\ call'.op = "decrease_key"
       /\ call'.reference < Len(storage)
       /\ call'.key > At(storage, call'.reference).key
       => /\ ~fault'
          /\ Rekeyed(storage, storage', At(storage, call'.reference), call'.key)
          /\ HeapProperty(storage) =>
                 /\ storage' = [storage EXCEPT ![call'.reference + 1].key = call'.key]
                 /\ HeapProperty(storage') <=>
                        \A child \in {2 * call'.reference + 1, 2 * call'.reference + 2} :
                            child < Len(storage) => call'.key <= At(storage, child).key]_vars

\* a delete_min after such a call returned a key that was not the least
C16_Witness ==
    /\ call.op = "delete_min"
    /\ val1 # None
    /\ \E i \in 1..Len(storage) : storage[i].key < val1[1].key

\* C18: decrease_key with a reference >= the number of entries, in particular
\* any reference on an empty heap, panics at the key overwrite, before any
\* entry is modified: storage is exactly as it was.
C18_OutOfBounds ==
    [][call'.op = "decrease_key" /\ call'.reference >= Len(storage) =>
          fault' /\ storage' = storage]_vars

C18_Witness ==
    /\ call.op = "decrease_key"
    /\ fault
    /\ storage # << >>
    /\ call.reference = Len(storage)

\* ------------------------------------------------------------------------
\* BinomialHeap: the number of rank slots delete_min scans
\* ------------------------------------------------------------------------
RECURSIVE FloorLog2(_)
FloorLog2(n) == IF n <= 1 THEN 0 ELSE 1 + FloorLog2(n \div 2)

CeilLog2(n) == IF n <= 1 THEN 0 ELSE 1 + FloorLog2(n - 1)

\* C17, as stated: in every reachable state with n >= 1 entries, the length
\* of the rank sequence and the number of occupied ranks are at most
\* ceil(log2 n).
C17_CeilLog2Ranks ==
    live.binomial >= 1 =>
        /\ Len(ranks) <= CeilLog2(live.binomial)
        /\ Cardinality(Occupied(ranks)) <= CeilLog2(live.binomial)

\* C17, amended: in every reachable state with n >= 1 entries, the number of
\* occupied ranks is at most floor(log2 n) + 1, and the length of the rank
\* sequence, which delete_min scans, is at most floor(log2 m) + 1, where m is
\* the largest number of entries the heap has held at once.
C17_RanksBound ==
    live.binomial >= 1 =>
        /\ Cardinality(Occupied(ranks)) <= FloorLog2(live.binomial) + 1
        /\ Len(ranks) <= FloorLog2(peak) + 1

\* the rank sequence is longer than the entries now stored account for
C17_Witness ==
    /\ call.op = "delete_min"
    /\ live.binomial >= 2
    /\ Len(ranks) > FloorLog2(live.binomial) + 1
    /\ Cardinality(Occupied(ranks)) = FloorLog2(live.binomial) + 1

\* ------------------------------------------------------------------------
\* Termination of the loops and of the recursion
\* ------------------------------------------------------------------------
RECURSIVE Nodes(_)
Nodes(h) == IF h = None THEN 0 ELSE 1 + Nodes(h[1].left) + Nodes(h[1].right)

\* what is left to do: the levels above current_index (sift-up), the slots
\* below it (sift-down), the rank slots the carry can still meet (carry), the
\* nodes of the two heaps being melded and the calls still to return (meld)
Measure(l, s, rs) ==
    IF l = None THEN 0
    ELSE CASE l[1].kind = "sift_up" -> l[1].current_index + 1
           [] l[1].kind = "sift_down" -> Len(s) - l[1].current_index
           [] l[1].kind = "carry" ->
                IF l[1].carry_tree = None THEN 1
                ELSE 2 + Max({0, Len(rs) - l[1].next_rank})
           [] l[1].kind = "meld" ->
                IF l[1].returning THEN 1 + Len(l[1].frames)
                ELSE 2 * (Nodes(l[1].self) + Nodes(l[1].other)) + Len(l[1].frames) + 2

\* the result of the operation the loop belongs to
Goal(l, h) ==
    CASE l.kind = "meld" -> h = Meld(l.from[1], l.from[2], l.path \o <<FALSE>>)
      [] OTHER -> TRUE

\* C19: every iteration of a sift loop, of the carry loop and every call and
\* return of meld strictly decreases a non-negative measure, for every outcome
\* of the coin flips; the loop that runs is left after finitely many steps, so
\* that insert, delete_min and decrease_key complete; and when it is left the
\* structure satisfies its invariant and is the result of the operation.
C19_Termination ==
    /\ [][loop # None =>
             /\ Measure(loop', storage', ranks') >= 0
             /\ Measure(loop', storage', ranks') < Measure(loop, storage, ranks)
             /\ loop' = None =>
                   /\ "binary" \in heaps =>
                          HeapProperty(storage') /\ storage' = loop[1].goal
                   /\ "binomial" \in heaps =>
                          /\ ValidTrees(ranks')
                          /\ SpellsSize(ranks', live'.binomial)
                          /\ ranks' = loop[1].goal
                   /\ "randomized" \in heaps =>
                          Ordered(root') /\ Goal(loop[1], root')]_vars
    /\ (loop # None) ~> (loop = None)

C19_Witness ==
    /\ loop # None
    /\ loop[1].kind = "meld"
    /\ loop[1].returning
    /\ Len(loop[1].frames) >= 2
    /\ loop[1].path[1] # loop[1].path[2]
====
